---- MODULE Spec2Model ----
(***************************************************************************)
(* Model of the chat client of LLMLabSDK: the streaming call               *)
(* (startChatStream) and the non-streaming call (chatWithAgentFuture).     *)
(*                                                                         *)
(* The repository holds two versions of the class:                        *)
(*   src/index.js         fetch + readStream/processLine over a byte       *)
(*                        stream that arrives in chunks ("index");         *)
(*   src/unnamed/part_000 EventSource + listenToStream/stopChatStream      *)
(*                        over server-sent events ("part_000").            *)
(* The variable impl says which version a behaviour runs.                  *)
(*                                                                         *)
(* Text is modelled character by character: a string is a sequence of      *)
(* one-character strings, so that split, includes, startsWith, substring,  *)
(* trim, TextDecoder and JSON.parse are computed, not assumed.             *)
(***************************************************************************)
EXTENDS Naturals, Sequences, FiniteSets

\* ------------------------------------------------------------------ bounds

\* Most frame lines the server puts in one response body / event stream.
MaxFrames == 2

\* Most stopChatStream calls a caller makes in one behaviour.
MaxStops == 2

\* Most errors one EventSource reports in one behaviour (an EventSource that
\* is not closed goes on reporting).
MaxErrors == 2

\* ------------------------------------------------------- string primitives

\* The literals of the source.
NL == "\n"
DQ == "\""
PREFIX == <<"d", "a", "t", "a", ":", " ">>
UNDEFINED == <<"u", "n", "d", "e", "f", "i", "n", "e", "d">>
STATUSCODE == <<"s", "t", "a", "t", "u", "s", "C", "o", "d", "e">>
RESPONSE == <<"r", "e", "s", "p", "o", "n", "s", "e">>
SYSTEMPROMPT == <<"s", "y", "s", "t", "e", "m", "P", "r", "o", "m", "p", "t">>

\* String.prototype.startsWith
StartsWith(s, p) ==
    /\ Len(p) <= Len(s)
    /\ SubSeq(s, 1, Len(p)) = p

\* String.prototype.includes
Includes(s, p) ==
    \E i \in 1..(Len(s) + 1) :
        /\ i + Len(p) - 1 <= Len(s)
        /\ SubSeq(s, i, i + Len(p) - 1) = p

\* String.prototype.substring(n): the text from (0-based) offset n on.
Substring(s, n) == SubSeq(s, n + 1, Len(s))

\* The white space String.prototype.trim and JSON.parse skip.
WhiteSpace == {" ", "\t", "\r", "\n"}

RECURSIVE TrimStart(_)
TrimStart(s) ==
    IF s # <<>> /\ Head(s) \in WhiteSpace THEN TrimStart(Tail(s)) ELSE s

RECURSIVE TrimEnd(_)
TrimEnd(s) ==
    IF s # <<>> /\ s[Len(s)] \in WhiteSpace
    THEN TrimEnd(SubSeq(s, 1, Len(s) - 1))
    ELSE s

\* String.prototype.trim
Trim(s) == TrimEnd(TrimStart(s))

\* The position of the first sep in s from position i on, Len(s) + 1 if none.
IndexFrom(s, sep, i) ==
    LET at == {j \in i..Len(s) : s[j] = sep}
    IN  IF at = {} THEN Len(s) + 1 ELSE CHOOSE j \in at : \A k \in at : j <= k

\* String.prototype.split(sep) for a one-character separator: the segments
\* between separators, always at least one (the last may be empty).
RECURSIVE Split(_, _)
Split(s, sep) ==
    LET i == IndexFrom(s, sep, 1)
    IN  IF i > Len(s)
        THEN <<s>>
        ELSE <<SubSeq(s, 1, i - 1)>> \o Split(SubSeq(s, i + 1, Len(s)), sep)

\* All but the last element, and the last element, of a non-empty sequence:
\* what lines.pop() leaves and returns.
Front(q) == SubSeq(q, 1, Len(q) - 1)
Last(q) == q[Len(q)]

\* ------------------------------------------------------------- TextDecoder

\* Bytes: an ASCII byte is written as its character. "C3" "A9" are the two
\* bytes of U+00E9 in UTF-8: "C3" is a lead byte that wants one continuation
\* byte, "A9" is a continuation byte.
LeadBytes == {"C3"}
ContBytes == {"A9"}
E_ACUTE == "U+00E9"
REPLACEMENT == "U+FFFD"

\* The concatenation of the sequences q[lo], ..., q[hi].
RECURSIVE ConcatRange(_, _, _)
ConcatRange(q, lo, hi) ==
    IF lo > hi
    THEN <<>>
    ELSE IF lo = hi
    THEN q[lo]
    ELSE LET mid == (lo + hi) \div 2
         IN  ConcatRange(q, lo, mid) \o ConcatRange(q, mid + 1, hi)

\* What the decoder emits for a byte b that starts a sequence: nothing yet for
\* a lead byte, U+FFFD for a stray continuation byte, else the character.
DecodeFresh(b) ==
    IF b \in LeadBytes THEN <<>>
    ELSE IF b \in ContBytes THEN <<REPLACEMENT>>
    ELSE <<b>>

\* What the decoder emits for byte b, held saying whether it holds a lead
\* byte: the two-byte character when b continues it; else U+FFFD for the
\* broken sequence, and b starts afresh.
DecodeByte(held, b) ==
    IF held
    THEN IF b \in ContBytes THEN <<E_ACUTE>> ELSE <<REPLACEMENT>> \o DecodeFresh(b)
    ELSE DecodeFresh(b)

\* new TextDecoder('utf-8').decode(chunk, {stream: true}): pending is the
\* incomplete sequence kept from the previous chunk. An incomplete sequence at
\* the end of the chunk is kept, not emitted; a malformed one becomes U+FFFD.
\* With two-byte sequences only, the decoder holds a lead byte exactly when
\* the byte before was one. ASCII bytes with nothing pending decode to
\* themselves.
Decode(pending, bytes) ==
    IF /\ pending = <<>>
       /\ \A i \in 1..Len(bytes) : bytes[i] \notin LeadBytes \cup ContBytes
    THEN [chars |-> bytes, pending |-> <<>>]
    ELSE LET held(i) == IF i = 1 THEN pending # <<>> ELSE bytes[i - 1] \in LeadBytes
             out == [i \in 1..Len(bytes) |-> DecodeByte(held(i), bytes[i])]
         IN  [chars |-> ConcatRange(out, 1, Len(bytes)),
              pending |-> IF bytes = <<>> THEN pending
                          ELSE IF bytes[Len(bytes)] \in LeadBytes
                          THEN <<bytes[Len(bytes)]>>
                          ELSE <<>>]

\* -------------------------------------------------------------- JSON.parse

\* A parsed JSON value. type is "object", "array", "string", "number", "true",
\* "false" or "null"; text is the content of a string or the digits of a
\* number; fields maps the keys of an object to their values and is the
\* sequence of the elements of an array.
NoFields == [k \in {} |-> {}]
JsonValue(type, text, fields) == [type |-> type, text |-> text, fields |-> fields]
\* The JavaScript value undefined (not a JSON value).
JsUndefined == JsonValue("undefined", <<>>, NoFields)

ParseFail == [ok |-> FALSE, value |-> JsUndefined, next |-> 0]
ParseOk(v, next) == [ok |-> TRUE, value |-> v, next |-> next]

Digits == {"0", "1", "2", "3", "4", "5", "6", "7", "8", "9"}

RECURSIVE SkipWs(_, _)
SkipWs(s, i) ==
    IF i <= Len(s) /\ s[i] \in WhiteSpace THEN SkipWs(s, i + 1) ELSE i

RECURSIVE DigitsEnd(_, _)
DigitsEnd(s, i) ==
    IF i <= Len(s) /\ s[i] \in Digits THEN DigitsEnd(s, i + 1) ELSE i

\* A string literal at position i (s[i] is the opening quote). Escapes and
\* control characters do not occur in the frames of this model.
ParseString(s, i) ==
    LET j == IndexFrom(s, DQ, i + 1)
    IN  IF j > Len(s)
        THEN ParseFail
        ELSE ParseOk(JsonValue("string", SubSeq(s, i + 1, j - 1), NoFields), j + 1)

\* An integer literal at position i (s[i] is a digit); a leading 0 ends it.
ParseNumber(s, i) ==
    LET j == IF s[i] = "0" THEN i + 1 ELSE DigitsEnd(s, i)
    IN  ParseOk(JsonValue("number", SubSeq(s, i, j - 1), NoFields), j)

ParseLiteral(s, i, word, type) ==
    IF i + Len(word) - 1 <= Len(s) /\ SubSeq(s, i, i + Len(word) - 1) = word
    THEN ParseOk(JsonValue(type, <<>>, NoFields), i + Len(word))
    ELSE ParseFail

RECURSIVE ParseValue(_, _)
RECURSIVE ParseMembers(_, _, _)
RECURSIVE ParseElements(_, _, _)

\* The elements of an array from position i (white space skipped) on, acc
\* being the elements read so far.
ParseElements(s, i, acc) ==
    LET v == ParseValue(s, i)
    IN  IF ~v.ok
        THEN ParseFail
        ELSE LET d == SkipWs(s, v.next)
             IN  IF d > Len(s)
                 THEN ParseFail
                 ELSE IF s[d] = ","
                 THEN ParseElements(s, SkipWs(s, d + 1), Append(acc, v.value))
                 ELSE IF s[d] = "]"
                 THEN ParseOk(JsonValue("array", <<>>, Append(acc, v.value)), d + 1)
                 ELSE ParseFail

\* The members of an object from position i (white space skipped) on, acc
\* being the members read so far; a repeated key keeps its last value.
ParseMembers(s, i, acc) ==
    IF i > Len(s) \/ s[i] # DQ
    THEN ParseFail
    ELSE LET k == ParseString(s, i)
         IN  IF ~k.ok
             THEN ParseFail
             ELSE LET c == SkipWs(s, k.next)
                  IN  IF c > Len(s) \/ s[c] # ":"
                      THEN ParseFail
                      ELSE LET v == ParseValue(s, SkipWs(s, c + 1))
                           IN  IF ~v.ok
                               THEN ParseFail
                               ELSE LET key == k.value.text
                                        acc2 == [x \in DOMAIN acc \cup {key} |->
                                                    IF x = key THEN v.value ELSE acc[x]]
                                        d == SkipWs(s, v.next)
                                    IN  IF d > Len(s)
                                        THEN ParseFail
                                        ELSE IF s[d] = ","
                                        THEN ParseMembers(s, SkipWs(s, d + 1), acc2)
                                        ELSE IF s[d] = "}"
                                        THEN ParseOk(JsonValue("object", <<>>, acc2), d + 1)
                                        ELSE ParseFail

ParseValue(s, i) ==
    IF i > Len(s)
    THEN ParseFail
    ELSE IF s[i] = DQ
    THEN ParseString(s, i)
    ELSE IF s[i] \in Digits
    THEN ParseNumber(s, i)
    ELSE IF s[i] = "{"
    THEN LET j == SkipWs(s, i + 1)
         IN  IF j <= Len(s) /\ s[j] = "}"
             THEN ParseOk(JsonValue("object", <<>>, NoFields), j + 1)
             ELSE ParseMembers(s, j, NoFields)
    ELSE IF s[i] = "["
    THEN LET j == SkipWs(s, i + 1)
         IN  IF j <= Len(s) /\ s[j] = "]"
             THEN ParseOk(JsonValue("array", <<>>, <<>>), j + 1)
             ELSE ParseElements(s, j, <<>>)
    ELSE IF s[i] = "n"
    THEN ParseLiteral(s, i, <<"n", "u", "l", "l">>, "null")
    ELSE IF s[i] = "t"
    THEN ParseLiteral(s, i, <<"t", "r", "u", "e">>, "true")
    ELSE IF s[i] = "f"
    THEN ParseLiteral(s, i, <<"f", "a", "l", "s", "e">>, "false")
    ELSE ParseFail

\* JSON.parse(s): one value with optional white space around it, else a
\* SyntaxError (ok = FALSE).
JSONParse(s) ==
    LET v == ParseValue(s, SkipWs(s, 1))
    IN  IF v.ok /\ SkipWs(s, v.next) = Len(s) + 1
        THEN [ok |-> TRUE, value |-> v.value]
        ELSE [ok |-> FALSE, value |-> JsUndefined]

\* ------------------------------------------------------------ server frames

Quoted(s) == <<DQ>> \o s \o <<DQ>>

\* The lines a server may send, as bytes without the line terminator.
\*   data: {"response":"hi","systemPrompt":"p"}     (the documented data frame)
L_DATA ==
    PREFIX \o <<"{">> \o Quoted(RESPONSE) \o <<":">> \o Quoted(<<"h", "i">>)
           \o <<",">> \o Quoted(SYSTEMPROMPT) \o <<":">> \o Quoted(<<"p">>) \o <<"}">>
\*   data: {"id":"<U+00E9>"}     (neither response nor systemPrompt, another
\*                                field, a two-byte character)
L_EXTRA ==
    PREFIX \o <<"{">> \o Quoted(<<"i", "d">>) \o <<":">> \o Quoted(<<"C3", "A9">>)
           \o <<"}">>
\*   data: undefined     (the end marker)
L_END == PREFIX \o UNDEFINED
\*   data: {"statusCode":500}     (an error frame)
L_ERR == PREFIX \o <<"{">> \o Quoted(STATUSCODE) \o <<":", "5", "0", "0", "}">>
\*   data: {"statusCode":undefined}     (both tokens)
L_BOTH == PREFIX \o <<"{">> \o Quoted(STATUSCODE) \o <<":">> \o UNDEFINED \o <<"}">>
\*   data: {bad     (malformed JSON)
L_BAD == PREFIX \o <<"{", "b", "a", "d">>
\*   the empty line and a line of one space
L_EMPTY == <<>>
L_BLANK == <<" ">>
\*   " data: {}": the frame prefix after the first character
L_MID == <<" ">> \o PREFIX \o <<"{", "}">>

Lines == {L_DATA, L_EXTRA, L_END, L_ERR, L_BOTH, L_BAD, L_EMPTY, L_BLANK, L_MID}

\* The sequences of at most MaxFrames lines.
FrameSeqs == UNION {[1..n -> Lines] : n \in 0..MaxFrames}

\* The lines of the bodies tried with an onSuccess that throws: a data frame
\* (the line that reaches the callback), a malformed one and the end marker.
ThrowLines == {L_DATA, L_BAD, L_END}
ThrowFrameSeqs == UNION {[1..n -> ThrowLines] : n \in 1..MaxFrames}

\* The response body for the lines fr: each line followed by a newline, the
\* last one only when terminated.
RECURSIVE Join(_, _)
Join(fr, terminated) ==
    IF fr = <<>>
    THEN <<>>
    ELSE IF Len(fr) = 1
    THEN Head(fr) \o (IF terminated THEN <<NL>> ELSE <<>>)
    ELSE Head(fr) \o <<NL>> \o Join(Tail(fr), terminated)

\* The text of a line of bytes, decoded in one piece.
Text(bytes) == Decode(<<>>, bytes).chars

\* ------------------------------------------------------- callback invocations

\* One invocation of a caller-supplied callback: cb is "success", "error" or
\* "complete"; by is the function that made the call; line is the number of
\* the line being handled (0 when the call is not about a line); text is the
\* string argument (<<>> if none) and value the object argument.
Invoke(cb, by, line, text, value) ==
    [cb |-> cb, by |-> by, line |-> line, text |-> text, value |-> value]

\* ------------------------------------------------------------- src/index.js

\* What a throwing onSuccess throws.
CallbackError == "Error: onSuccess failed"

\* An exception that leaves the handler of a notification: the entry the log
\* gets in place of an invocation.
Uncaught(by, line, error) == Invoke("uncaught", by, line, <<error>>, JsUndefined)

\* A processLine whose try does not enclose onSuccess(data): what onSuccess
\* throws leaves processLine.
ProcessLineNoCatch(line, n, throws) ==
    IF line = <<>> \/ ~Includes(line, PREFIX)
    THEN <<>>
    ELSE IF Includes(line, UNDEFINED)
    THEN <<Invoke("complete", "processLine", n, <<>>, JsUndefined)>>
    ELSE LET payload == IF StartsWith(line, PREFIX) THEN Substring(line, 6) ELSE line
             data == JSONParse(payload)
         IN  IF data.ok
             THEN <<Invoke("success", "processLine", n, <<>>, data.value)>>
                  \o (IF throws
                      THEN <<Uncaught("processLine", n, CallbackError)>>
                      ELSE <<>>)
             ELSE <<Invoke("error", "processLine", n,
                           <<"Error processing data: ", "SyntaxError">>, JsUndefined)>>

\* processLine(line, onSuccess, onError, onComplete), line being line number n;
\* throws says whether the caller's onSuccess throws. onSuccess(data) is
\* inside the try, so what it throws is caught like a parse failure.
ProcessLine(line, n, throws) ==
    IF line = <<>> \/ ~Includes(line, PREFIX)
    THEN <<>>
    ELSE IF Includes(line, UNDEFINED)
    THEN <<Invoke("complete", "processLine", n, <<>>, JsUndefined)>>
    ELSE LET payload == IF StartsWith(line, PREFIX) THEN Substring(line, 6) ELSE line
             data == JSONParse(payload)
         IN  IF data.ok
             THEN <<Invoke("success", "processLine", n, <<>>, data.value)>>
                  \o (IF throws
                      THEN <<Invoke("error", "processLine", n,
                                    <<"Error processing data: ", CallbackError>>,
                                    JsUndefined)>>
                      ELSE <<>>)
             ELSE <<Invoke("error", "processLine", n,
                           <<"Error processing data: ", "SyntaxError">>, JsUndefined)>>

\* Whether the last of the invocations is an exception that left the handler.
Threw(calls) == calls # <<>> /\ calls[Len(calls)].cb = "uncaught"

\* A forEach that a parse failure aborts: the lines after the first one that
\* reports an error are not handled.
RECURSIVE ForEachLineAbort(_, _, _)
ForEachLineAbort(lines, n, throws) ==
    IF lines = <<>>
    THEN <<>>
    ELSE LET calls == IF Head(lines) # <<>>
                      THEN ProcessLine(Head(lines), n + 1, throws)
                      ELSE <<>>
         IN  IF calls # <<>> /\ calls[1].cb = "error"
             THEN calls
             ELSE calls \o ForEachLineAbort(Tail(lines), n + 1, throws)

\* A forEach that visits the lines from the last to the first.
RECURSIVE ForEachLineBackwards(_, _, _)
ForEachLineBackwards(lines, n, throws) ==
    IF lines = <<>>
    THEN <<>>
    ELSE ForEachLineBackwards(Tail(lines), n + 1, throws)
         \o (IF Head(lines) # <<>>
             THEN ProcessLine(Head(lines), n + 1, throws)
             ELSE <<>>)

\* lines.forEach(line => { if (line) this.processLine(line, ...) }), the first
\* of the lines being line number n + 1. An exception that leaves the
\* function passed to forEach ends the iteration.
RECURSIVE ForEachLine(_, _, _)
ForEachLine(lines, n, throws) ==
    IF lines = <<>>
    THEN <<>>
    ELSE LET calls == IF Head(lines) # <<>>
                      THEN ProcessLine(Head(lines), n + 1, throws)
                      ELSE <<>>
         IN  IF Threw(calls)
             THEN calls
             ELSE calls \o ForEachLine(Tail(lines), n + 1, throws)

\* A readStream that forgets the incomplete line: buffer = '' after the split.
KeepNothing(lines) == <<>>

\* What lines.pop() leaves in the buffer.
KeepIncomplete(lines) == Last(lines)

\* A 'data' handler that splits the chunk alone: the text kept from the
\* chunks before is not put in front of it.
ReadStreamDataNoCarry(buf, pending, chunk, n, throws) ==
    LET dec == Decode(pending, chunk)
        lines == Split(dec.chars, NL)
    IN  [buffer |-> KeepIncomplete(lines),
         pending |-> dec.pending,
         nlines |-> n + Len(lines) - 1,
         calls |-> ForEachLine(Front(lines), n, throws)]

\* The 'data' handler of readStream: buf and pending are the closure's buffer
\* and the decoder's state, n the number of lines handled before.
ReadStreamData(buf, pending, chunk, n, throws) ==
    LET dec == Decode(pending, chunk)
        lines == Split(buf \o dec.chars, NL)
    IN  [buffer |-> KeepIncomplete(lines),
         pending |-> dec.pending,
         nlines |-> n + Len(lines) - 1,
         calls |-> ForEachLine(Front(lines), n, throws)]

\* The 'end' handler of readStream.
ReadStreamEnd(buf, n, throws) ==
    LET calls == IF buf # <<>> THEN ProcessLine(buf, n + 1, throws) ELSE <<>>
    IN  IF Threw(calls)
        THEN calls
        ELSE calls \o <<Invoke("complete", "readStream.end", 0, <<>>, JsUndefined)>>

\* The 'error' handler of readStream.
ReadStreamError(error) ==
    <<Invoke("error", "readStream.error", 0, <<error>>, JsUndefined)>>

\* A startChatStream without the try/catch: what the POST throws leaves the
\* function.
FetchStartNoCatch(outcome) ==
    IF outcome \in {"rejects", "no_body"}
    THEN [calls |-> <<>>, attached |-> FALSE, rejected |-> TRUE]
    ELSE [calls |-> <<>>, attached |-> TRUE, rejected |-> FALSE]

\* startChatStream of src/index.js. outcome is what the POST does: "rejects"
\* (fetch rejects), "no_body" (a response without body) or "stream" (a
\* response with a readable body). The result says which callbacks were
\* invoked, whether readStream attached to the body, and whether an exception
\* left the function (the returned promise rejects).
FetchStartChatStream(outcome) ==
    LET thrown == IF outcome = "rejects" THEN "FetchError"
                  ELSE IF outcome = "no_body"
                  THEN "Error: Response does not contain a readable stream."
                  ELSE ""
    IN  IF thrown # ""
        THEN [calls |-> <<Invoke("error", "startChatStream", 0,
                                 <<"Failed to start the stream: ", thrown>>,
                                 JsUndefined)>>,
              attached |-> FALSE, rejected |-> FALSE]
        ELSE [calls |-> <<>>, attached |-> TRUE, rejected |-> FALSE]

\* ------------------------------------------------------ src/unnamed/part_000

\* createChatResponse(decoded): the two properties of decoded, undefined when
\* decoded has none of that name. Reading a property of null throws.
Property(decoded, key) ==
    IF decoded.type = "object" /\ key \in DOMAIN decoded.fields
    THEN decoded.fields[key]
    ELSE JsUndefined

CreateChatResponse(decoded) ==
    JsonValue("object", <<>>,
              [k \in {RESPONSE, SYSTEMPROMPT} |-> Property(decoded, k)])

\* The onmessage handler of listenToStream for event.data = line, line number
\* n; throws says whether the caller's onSuccess throws (the catch of the
\* handler then passes what was thrown to onError). stop says whether the
\* handler calls this.stopChatStream().
OnMessage(line, n, throws) ==
    IF Trim(line) = <<>> \/ ~StartsWith(line, PREFIX)
    THEN [calls |-> <<>>, stop |-> FALSE]
    ELSE LET jsonData == Trim(Substring(line, Len(PREFIX)))
         IN  IF Includes(jsonData, STATUSCODE)
             THEN [calls |-> <<Invoke("error", "onmessage", n, jsonData, JsUndefined)>>,
                   stop |-> FALSE]
             ELSE IF Includes(jsonData, UNDEFINED)
             THEN [calls |-> <<Invoke("complete", "onmessage", n, <<>>, JsUndefined)>>,
                   stop |-> TRUE]
             ELSE LET decoded == JSONParse(jsonData)
                  IN  IF ~decoded.ok
                      THEN [calls |-> <<Invoke("error", "onmessage", n,
                                               <<"SyntaxError">>, JsUndefined)>>,
                            stop |-> FALSE]
                      ELSE IF decoded.value.type = "null"
                      THEN [calls |-> <<Invoke("error", "onmessage", n,
                                               <<"TypeError">>, JsUndefined)>>,
                            stop |-> FALSE]
                      ELSE [calls |-> <<Invoke("success", "onmessage", n, <<>>,
                                               CreateChatResponse(decoded.value))>>
                                      \o (IF throws
                                          THEN <<Invoke("error", "onmessage", n,
                                                        <<CallbackError>>,
                                                        JsUndefined)>>
                                          ELSE <<>>),
                            stop |-> FALSE]

\* An onerror handler that does not call this.stopChatStream().
OnErrorEventNoStop(error) ==
    [calls |-> <<Invoke("error", "onerror", 0, <<error>>, JsUndefined)>>,
     stop |-> FALSE]

\* The onerror handler of listenToStream: onError(error), then
\* this.stopChatStream().
OnErrorEvent(error) ==
    [calls |-> <<Invoke("error", "onerror", 0, <<error>>, JsUndefined)>>,
     stop |-> TRUE]

\* startChatStream of part_000. outcome is what the POST does: "rejects" (fetch
\* rejects), "not_json" (response.json() rejects), "no_url" (a JSON body
\* without streamUrl) or "stream" (a body with streamUrl).
EsStartChatStream(outcome) ==
    IF outcome = "rejects"
    THEN [calls |-> <<Invoke("error", "startChatStream", 0, <<"FetchError">>,
                             JsUndefined)>>,
          attached |-> FALSE, rejected |-> FALSE]
    ELSE IF outcome = "not_json"
    THEN [calls |-> <<Invoke("error", "startChatStream", 0, <<"SyntaxError">>,
                             JsUndefined)>>,
          attached |-> FALSE, rejected |-> FALSE]
    ELSE IF outcome = "no_url"
    THEN [calls |-> <<Invoke("error", "startChatStream", 0,
                             <<"Failed to start stream session.">>, JsUndefined)>>,
          attached |-> FALSE, rejected |-> FALSE]
    ELSE [calls |-> <<>>, attached |-> TRUE, rejected |-> FALSE]

\* A stopChatStream that does not clear this.eventSource.
StopKeepsHandle(handle) ==
    IF handle # 0
    THEN [closes |-> handle, handle |-> handle]
    ELSE [closes |-> 0, handle |-> handle]

\* stopChatStream(): handle is this.eventSource (0 when unset or null). The
\* result names the connection whose close() is called (0 for none) and the
\* handle afterwards.
StopChatStreamOp(handle) ==
    IF handle # 0
    THEN [closes |-> handle, handle |-> 0]
    ELSE [closes |-> 0, handle |-> handle]

\* ------------------------------------------------------ non-streaming call

CHOICES == <<"c", "h", "o", "i", "c", "e", "s">>
MESSAGE == <<"m", "e", "s", "s", "a", "g", "e">>
CONTENT == <<"c", "o", "n", "t", "e", "n", "t">>

\* The bodies a server may answer the POST with.
\*   {"choices":[{"message":{"content":"ok"}}]}     (the documented body)
B_OK ==
    <<"{">> \o Quoted(CHOICES) \o <<":", "[", "{">> \o Quoted(MESSAGE)
            \o <<":", "{">> \o Quoted(CONTENT) \o <<":">> \o Quoted(<<"o", "k">>)
            \o <<"}", "}", "]", "}">>
\*   {"choices":[{"message":{}}]}     (a message without content)
B_NOCONTENT ==
    <<"{">> \o Quoted(CHOICES) \o <<":", "[", "{">> \o Quoted(MESSAGE)
            \o <<":", "{", "}", "}", "]", "}">>
\*   {"choices":[{}]}     (a choice without message)
B_NOMESSAGE == <<"{">> \o Quoted(CHOICES) \o <<":", "[", "{", "}", "]", "}">>
\*   {"choices":[]}     (no choice)
B_NOCHOICE == <<"{">> \o Quoted(CHOICES) \o <<":", "[", "]", "}">>
\*   {"message":"no"}     (an error body: no choices)
B_ERROR == <<"{">> \o Quoted(MESSAGE) \o <<":">> \o Quoted(<<"n", "o">>) \o <<"}">>
\*   null
B_NULL == <<"n", "u", "l", "l">>
\*   <html>     (not JSON)
B_HTML == <<"<", "h", "t", "m", "l", ">">>

Bodies == {B_OK, B_NOCONTENT, B_NOMESSAGE, B_NOCHOICE, B_ERROR, B_NULL, B_HTML}

\* The status codes a server may answer with.
Statuses == {200, 201, 500}

\* Reading a property of v throws a TypeError when v is undefined or null.
Nullish(v) == v.type \in {"undefined", "null"}

\* v[0]: the first element of an array, the first character of a string,
\* undefined for every other value that has properties.
First(v) ==
    IF v.type = "array" /\ Len(v.fields) >= 1
    THEN v.fields[1]
    ELSE IF v.type = "string" /\ v.text # <<>>
    THEN JsonValue("string", <<v.text[1]>>, NoFields)
    ELSE JsUndefined

\* data.choices[0].message.content: the value read, or the TypeError thrown on
\* the way.
ChoiceContent(data) ==
    IF Nullish(data)
    THEN [threw |-> TRUE, value |-> JsUndefined]
    ELSE IF Nullish(Property(data, CHOICES))
    THEN [threw |-> TRUE, value |-> JsUndefined]
    ELSE IF Nullish(First(Property(data, CHOICES)))
    THEN [threw |-> TRUE, value |-> JsUndefined]
    ELSE IF Nullish(Property(First(Property(data, CHOICES)), MESSAGE))
    THEN [threw |-> TRUE, value |-> JsUndefined]
    ELSE [threw |-> FALSE,
          value |-> Property(Property(First(Property(data, CHOICES)), MESSAGE),
                             CONTENT)]

\* What a non-streaming call resolves to: { success: true, content } or
\* { success: false, error }. escaped says that the promise rejected instead.
ChatSuccess(content) ==
    [success |-> TRUE, content |-> content, error |-> "", escaped |-> FALSE]
ChatFailure(error) ==
    [success |-> FALSE, content |-> JsUndefined, error |-> error, escaped |-> FALSE]

\* chatWithAgentFuture of src/index.js. fetch is what the POST does ("rejects"
\* or "responds"), status and text the status code and the body of the
\* response. All of the function is inside its try.
ChatWithAgentFuture(fetch, status, text) ==
    IF fetch = "rejects"
    THEN ChatFailure("FetchError")
    ELSE LET data == JSONParse(text)
         IN  IF ~data.ok
             THEN ChatFailure("SyntaxError")
             ELSE IF status # 201
             THEN IF Nullish(data.value)
                  THEN ChatFailure("TypeError")
                  ELSE ChatFailure("HTTP error! status")
             ELSE IF ChoiceContent(data.value).threw
             THEN ChatFailure("TypeError")
             ELSE ChatSuccess(ChoiceContent(data.value).value)

\* chatWithAgent of part_000: the same without the test of the status.
ChatWithAgent(fetch, status, text) ==
    IF fetch = "rejects"
    THEN ChatFailure("FetchError")
    ELSE LET data == JSONParse(text)
         IN  IF ~data.ok
             THEN ChatFailure("SyntaxError")
             ELSE IF ChoiceContent(data.value).threw
             THEN ChatFailure("TypeError")
             ELSE ChatSuccess(ChoiceContent(data.value).value)

\* -------------------------------------------------------------------- state

\* The startChatStream calls made on one SDK instance.
CallIds == {1, 2}

VARIABLES
    impl,        \* "index" (src/index.js) or "part_000" (src/unnamed/part_000)
    setup,       \* per call: "idle", "ok" (a stream was attached) or "failed"
    rejected,    \* per call: whether the promise of startChatStream rejected
    conn,        \* per call, its connection: "none", "open", "ended" (the body
                 \* emitted 'end'), "errored" (the body emitted 'error') or
                 \* "closed" (close() was called on the EventSource)
    frames,      \* per call: the lines the server sends on the connection
    body,        \* per call (index): the bytes of response.body not yet delivered
    received,    \* per call (index): the bytes delivered so far
    events,      \* per call (part_000): the messages not yet delivered
    buffer,      \* per call (index): the variable buffer of readStream
    decoder,     \* per call (index): the incomplete byte sequence the decoder holds
    nlines,      \* per call: the number of lines handled so far
    log,         \* per call: the callback invocations made so far, in order
    eventSource, \* (part_000) this.eventSource: 0 (unset or null) or the call
                 \* whose EventSource it refers to
    closeCalls,  \* per call: how often close() was called on its connection
    nstops,      \* how often the caller has called stopChatStream()
    throwing,    \* per call: whether the onSuccess the caller passed throws
    chat         \* the non-streaming call: whether it was made, what the server
                 \* did, and what the call resolved to

vars == <<impl, setup, rejected, conn, frames, body, received, events, buffer,
          decoder, nlines, log, eventSource, closeCalls, nstops, throwing, chat>>

\* No non-streaming call yet.
NoChat ==
    [called |-> FALSE, fetch |-> "", status |-> 0, text |-> <<>>,
     result |-> ChatFailure("")]

Init ==
    /\ impl \in {"index", "part_000"}
    /\ setup = [c \in CallIds |-> "idle"]
    /\ rejected = [c \in CallIds |-> FALSE]
    /\ conn = [c \in CallIds |-> "none"]
    /\ frames = [c \in CallIds |-> <<>>]
    /\ body = [c \in CallIds |-> <<>>]
    /\ received = [c \in CallIds |-> <<>>]
    /\ events = [c \in CallIds |-> <<>>]
    /\ buffer = [c \in CallIds |-> <<>>]
    /\ decoder = [c \in CallIds |-> <<>>]
    /\ nlines = [c \in CallIds |-> 0]
    /\ log = [c \in CallIds |-> <<>>]
    /\ eventSource = 0
    /\ closeCalls = [c \in CallIds |-> 0]
    /\ nstops = 0
    /\ throwing = [c \in CallIds |-> FALSE]
    /\ chat = NoChat

\* The error a failing transport reports.
TransportError == "Error: aborted"

\* ------------------------------------------------------------------ actions

\* this.stopChatStream() inside an action of part_000, when stop holds.
MayStop(stop) ==
    LET r == StopChatStreamOp(eventSource)
    IN  IF stop /\ r.closes # 0
        THEN /\ eventSource' = r.handle
             /\ conn' = [conn EXCEPT ![r.closes] = "closed"]
             /\ closeCalls' = [closeCalls EXCEPT ![r.closes] = @ + 1]
        ELSE /\ eventSource' = (IF stop THEN r.handle ELSE eventSource)
             /\ UNCHANGED <<conn, closeCalls>>

\* sdk.startChatStream({...}) of src/index.js, call c: the POST, then
\* readStream on the body, which the server fills with lines fr of seqs;
\* callbacks says what the caller's onSuccess may do (throw or not).
FetchStartOf(c, seqs, callbacks) ==
    /\ impl = "index"
    /\ setup[c] = "idle"
    /\ ~chat.called
    /\ \E outcome \in {"rejects", "no_body", "stream"}, fr \in seqs,
          terminated \in BOOLEAN, throws \in callbacks :
        \E r \in {FetchStartChatStream(outcome)} :
            /\ throwing' = [throwing EXCEPT ![c] = r.attached /\ throws]
            /\ log' = [log EXCEPT ![c] = @ \o r.calls]
            /\ rejected' = [rejected EXCEPT ![c] = r.rejected]
            /\ setup' = [setup EXCEPT ![c] = IF r.attached THEN "ok" ELSE "failed"]
            /\ conn' = [conn EXCEPT ![c] = IF r.attached THEN "open" ELSE @]
            /\ frames' = [frames EXCEPT ![c] = IF r.attached THEN fr ELSE @]
            /\ body' = [body EXCEPT ![c] =
                            IF r.attached THEN Join(fr, terminated) ELSE @]
    /\ UNCHANGED <<impl, received, events, buffer, decoder, nlines, eventSource,
                   closeCalls, nstops, chat>>

\* Every body with an onSuccess that returns; the bodies of ThrowFrameSeqs
\* with an onSuccess that throws.
FetchStart(c) ==
    \/ FetchStartOf(c, FrameSeqs, {FALSE})
    \/ FetchStartOf(c, ThrowFrameSeqs, {TRUE})

\* The body of call c emits 'data' with the next k bytes.
Data(c) ==
    /\ impl = "index"
    /\ conn[c] = "open"
    /\ \E k \in 1..Len(body[c]) :
        \E r \in {ReadStreamData(buffer[c], decoder[c], SubSeq(body[c], 1, k),
                                   nlines[c], throwing[c])} :
            /\ body' = [body EXCEPT ![c] = SubSeq(@, k + 1, Len(@))]
            /\ received' = [received EXCEPT ![c] = @ \o SubSeq(body[c], 1, k)]
            /\ buffer' = [buffer EXCEPT ![c] = r.buffer]
            /\ decoder' = [decoder EXCEPT ![c] = r.pending]
            /\ nlines' = [nlines EXCEPT ![c] = r.nlines]
            /\ log' = [log EXCEPT ![c] = @ \o r.calls]
    /\ UNCHANGED <<impl, setup, rejected, conn, frames, events, eventSource,
                   closeCalls, nstops, throwing, chat>>

\* The body of call c emits 'end': the server has sent everything and closed.
\* A Node.js readable emits nothing after 'end'.
End(c) ==
    /\ impl = "index"
    /\ conn[c] = "open"
    /\ body[c] = <<>>
    /\ log' = [log EXCEPT ![c] = @ \o ReadStreamEnd(buffer[c], nlines[c],
                                                       throwing[c])]
    /\ conn' = [conn EXCEPT ![c] = "ended"]
    /\ UNCHANGED <<impl, setup, rejected, frames, body, received, events,
                   buffer, decoder, nlines, eventSource, closeCalls, nstops,
                   throwing, chat>>

\* The body of call c emits 'error': the transport failed, at any point of
\* the stream. A Node.js readable emits no 'data' or 'end' after 'error'.
Error(c) ==
    /\ impl = "index"
    /\ conn[c] = "open"
    /\ log' = [log EXCEPT ![c] = @ \o ReadStreamError(TransportError)]
    /\ conn' = [conn EXCEPT ![c] = "errored"]
    /\ UNCHANGED <<impl, setup, rejected, frames, body, received, events,
                   buffer, decoder, nlines, eventSource, closeCalls, nstops,
                   throwing, chat>>

\* sdk.startChatStream({...}) of part_000, call c: the POST, then
\* listenToStream, which stores a new EventSource in this.eventSource; the
\* server sends lines fr of seqs as messages.
EsStartOf(c, seqs, callbacks) ==
    /\ impl = "part_000"
    /\ setup[c] = "idle"
    /\ ~chat.called
    /\ \E outcome \in {"rejects", "not_json", "no_url", "stream"}, fr \in seqs,
          throws \in callbacks :
        \E r \in {EsStartChatStream(outcome)} :
            /\ throwing' = [throwing EXCEPT ![c] = r.attached /\ throws]
            /\ log' = [log EXCEPT ![c] = @ \o r.calls]
            /\ rejected' = [rejected EXCEPT ![c] = r.rejected]
            /\ setup' = [setup EXCEPT ![c] = IF r.attached THEN "ok" ELSE "failed"]
            /\ conn' = [conn EXCEPT ![c] = IF r.attached THEN "open" ELSE @]
            /\ frames' = [frames EXCEPT ![c] = IF r.attached THEN fr ELSE @]
            /\ events' = [events EXCEPT ![c] =
                              IF r.attached THEN [i \in 1..Len(fr) |-> Text(fr[i])]
                              ELSE @]
            /\ eventSource' = IF r.attached THEN c ELSE eventSource
    /\ UNCHANGED <<impl, body, received, buffer, decoder, nlines, closeCalls,
                   nstops, chat>>

EsStart(c) == EsStartOf(c, FrameSeqs, BOOLEAN)

\* The EventSource of call c delivers its next message. A closed EventSource
\* delivers nothing.
Message(c) ==
    /\ impl = "part_000"
    /\ conn[c] = "open"
    /\ events[c] # <<>>
    /\ \E r \in {OnMessage(Head(events[c]), nlines[c] + 1, throwing[c])} :
           /\ log' = [log EXCEPT ![c] = @ \o r.calls]
           /\ MayStop(r.stop)
    /\ events' = [events EXCEPT ![c] = Tail(@)]
    /\ nlines' = [nlines EXCEPT ![c] = @ + 1]
    /\ UNCHANGED <<impl, setup, rejected, frames, body, received, buffer,
                   decoder, nstops, throwing, chat>>

\* The EventSource of call c reports an error: the connection failed or the
\* server closed it.
ErrorEvent(c) ==
    /\ impl = "part_000"
    /\ conn[c] = "open"
    /\ Cardinality({i \in DOMAIN log[c] : log[c][i].by = "onerror"}) < MaxErrors
    /\ \E r \in {OnErrorEvent(TransportError)} :
           /\ log' = [log EXCEPT ![c] = @ \o r.calls]
           /\ MayStop(r.stop)
    /\ UNCHANGED <<impl, setup, rejected, frames, body, received, events,
                   buffer, decoder, nlines, nstops, throwing, chat>>

\* The caller calls sdk.stopChatStream() (part_000; src/index.js has none).
StopChatStream ==
    /\ impl = "part_000"
    /\ nstops < MaxStops
    /\ nstops' = nstops + 1
    /\ MayStop(TRUE)
    /\ UNCHANGED <<impl, setup, rejected, frames, body, received, events,
                   buffer, decoder, nlines, log, throwing, chat>>

\* The caller awaits sdk.chatWithAgentFuture({...}) (src/index.js) or
\* sdk.chatWithAgent(...) (part_000). The call shares no state with the
\* streaming calls: it is made on an instance that has started no stream.
Chat ==
    /\ ~chat.called
    /\ \A c \in CallIds : setup[c] = "idle"
    /\ \E fetch \in {"rejects", "responds"}, status \in Statuses, text \in Bodies :
        \E r \in {IF impl = "index" THEN ChatWithAgentFuture(fetch, status, text)
                  ELSE ChatWithAgent(fetch, status, text)} :
            chat' = [called |-> TRUE, fetch |-> fetch,
                     status |-> IF fetch = "responds" THEN status ELSE 0,
                     text |-> IF fetch = "responds" THEN text ELSE <<>>,
                     result |-> r]
    /\ UNCHANGED <<impl, setup, rejected, conn, frames, body, received, events,
                   buffer, decoder, nlines, log, eventSource, closeCalls,
                   nstops, throwing>>

\* One startChatStream call, or one non-streaming call, per SDK instance.
Next ==
    \/ FetchStart(1)
    \/ EsStart(1)
    \/ \E c \in CallIds : Data(c)
    \/ \E c \in CallIds : End(c)
    \/ \E c \in CallIds : Error(c)
    \/ \E c \in CallIds : Message(c)
    \/ \E c \in CallIds : ErrorEvent(c)
    \/ StopChatStream
    \/ Chat

Spec == Init /\ [][Next]_vars

\* Two startChatStream calls on one SDK instance, each started at any time,
\* their notifications interleaved; the bodies are of at most one short line.
ConcLines == {L_END, L_BAD}
ConcFrameSeqs == {<<>>} \cup {<<l>> : l \in ConcLines}

FetchStartConc(c) == FetchStartOf(c, ConcFrameSeqs, {FALSE})
EsStartConc(c) == EsStartOf(c, ConcFrameSeqs, {FALSE})

NextConc ==
    \/ \E c \in CallIds : FetchStartConc(c)
    \/ \E c \in CallIds : EsStartConc(c)
    \/ \E c \in CallIds : Data(c)
    \/ \E c \in CallIds : End(c)
    \/ \E c \in CallIds : Error(c)
    \/ \E c \in CallIds : Message(c)
    \/ \E c \in CallIds : ErrorEvent(c)
    \/ StopChatStream

SpecConc == Init /\ [][NextConc]_vars

\* ------------------------------------------------------------------- claims

\* The invocations call c made for line number n, in order.
Entries(c, n) == SelectSeq(log[c], LAMBDA e : e.line = n)

\* The positions in the log of call c of the invocations of callback cb.
Positions(c, cb) == {i \in DOMAIN log[c] : log[c][i].cb = cb}

\* The numbers of the lines call c has handled: the complete lines so far,
\* and the residual line once 'end' has been handled.
Handled(c) ==
    (1..nlines[c]) \cup
    (IF impl = "index" /\ conn[c] = "ended" /\ buffer[c] # <<>>
     THEN {nlines[c] + 1} ELSE {})

\* The text of line number n of call c, as the server sent it.
LineText(c, n) == Text(frames[c][n])

\* The frame classes of the protocol description, in its order: a frame is a
\* line that begins with the prefix; its payload is what follows the prefix.
IsFrame(line) == Trim(line) # <<>> /\ StartsWith(line, PREFIX)
Payload(line) == Substring(line, Len(PREFIX))
IsErrorFrame(line) == IsFrame(line) /\ Includes(Payload(line), STATUSCODE)
IsEndMarker(line) ==
    IsFrame(line) /\ ~IsErrorFrame(line) /\ Includes(Payload(line), UNDEFINED)
IsDataFrame(line) == IsFrame(line) /\ ~IsErrorFrame(line) /\ ~IsEndMarker(line)
IsWellFormedData(line) == IsDataFrame(line) /\ JSONParse(Payload(line)).ok
IsMalformedData(line) == IsDataFrame(line) /\ ~JSONParse(Payload(line)).ok

\* An invocation of the completion callback made for an end marker line.
IsMarkerCompletion(e) == e.cb = "complete" /\ e.line > 0

\* C1: the completion callback of a call is invoked at most once, whatever the
\* chunks; in particular not again by end-of-input after an end marker.
C1_CompleteAtMostOnce ==
    \A c \in CallIds : Cardinality(Positions(c, "complete")) <= 1

\* C2: once the end marker of a stream has been dispatched, no callback is
\* invoked for any later line of that stream (later in the chunk, in a later
\* chunk, or left in the buffer).
C2_NothingAfterEndMarker ==
    \A c \in CallIds : \A i, j \in DOMAIN log[c] :
        (i < j /\ IsMarkerCompletion(log[c][i])) => log[c][j].line = 0

\* What readStream invokes when the whole text arrives in one chunk, and then
\* 'end'.
OneChunk(text, throws) ==
    LET r == ReadStreamData(<<>>, <<>>, text, 0, throws)
    IN  [open |-> r,
         ended |-> r.calls \o ReadStreamEnd(r.buffer, r.nlines, throws)]

\* C3: however the text is split into chunks, readStream is where one chunk
\* holding everything received so far would have put it (same invocations in
\* the same order, same buffer, same decoder state), and after end-of-input
\* the invocations are those of the whole text delivered in one chunk.
C3_SplitInvariant ==
    \A c \in CallIds :
        (impl = "index" /\ conn[c] \in {"open", "ended"}) =>
            \E one \in {OneChunk(received[c], throwing[c])} :
                /\ buffer[c] = one.open.buffer
                /\ decoder[c] = one.open.pending
                /\ nlines[c] = one.open.nlines
                /\ conn[c] = "open" => log[c] = one.open.calls
                /\ conn[c] = "ended" => log[c] = one.ended

\* Witness of C3: a chunk ended in the middle of the prefix of the second
\* line ("dat" is in the buffer) after the first line was dispatched.
C3_Witness ==
    /\ impl = "index"
    /\ conn[1] = "open"
    /\ buffer[1] = <<"d", "a", "t">>
    /\ log[1] # <<>>

\* C4: a frame whose payload contains statusCode gets exactly one invocation:
\* the error callback with the raw payload; neither success nor completion is
\* invoked for it.
C4_StatusCodeIsError ==
    \A c \in CallIds : \A n \in Handled(c) :
        IsErrorFrame(LineText(c, n)) =>
            /\ Len(Entries(c, n)) = 1
            /\ Entries(c, n)[1].cb = "error"
            /\ Entries(c, n)[1].text = Payload(LineText(c, n))

\* C5: a data frame with malformed JSON gets exactly one invocation, the
\* error callback with the parse failure, and the stream goes on: every
\* well-formed data frame handled after it gets its success invocation, once
\* and first, and readStream has handled every later line by end-of-input.
C5_ParseErrorDoesNotAbort ==
    \A c \in CallIds : \A n \in Handled(c) :
        IsMalformedData(LineText(c, n)) =>
            /\ Len(Entries(c, n)) = 1
            /\ Entries(c, n)[1].cb = "error"
            /\ Includes(Entries(c, n)[1].text, <<"SyntaxError">>)
            /\ \A m \in Handled(c) :
                (m > n /\ IsWellFormedData(LineText(c, m))) =>
                    /\ Entries(c, m) # <<>>
                    /\ Entries(c, m)[1].cb = "success"
                    /\ \A i \in 2..Len(Entries(c, m)) :
                           Entries(c, m)[i].cb # "success"
            /\ (impl = "index" /\ conn[c] = "ended") =>
                \A m \in (n + 1)..Len(frames[c]) :
                    frames[c][m] # <<>> => m \in Handled(c)

\* Witness of C5: readStream got a malformed data frame and then a well-formed
\* one, and has dispatched the second through the success callback.
C5_Witness ==
    /\ impl = "index"
    /\ frames[1] = <<L_BAD, L_DATA>>
    /\ 2 \in Handled(1)
    /\ Entries(1, 2) # <<>>
    /\ Entries(1, 2)[1].cb = "success"

\* C6: a line that is empty after trimming, or that does not begin with the
\* frame prefix (even if it contains it further on), gets no invocation.
C6_NoiseIsSilent ==
    \A c \in CallIds : \A n \in Handled(c) :
        ~IsFrame(LineText(c, n)) => Entries(c, n) = <<>>

\* C7: when end-of-input finds an unterminated line with a valid data payload
\* in the buffer, that payload goes to the success callback, and every
\* invocation of the completion callback comes after it.
C7_ResidualBeforeCompletion ==
    \A c \in CallIds :
        (impl = "index" /\ conn[c] = "ended" /\ IsWellFormedData(buffer[c])) =>
            \E i \in Positions(c, "success") :
                /\ log[c][i].line = nlines[c] + 1
                /\ \A j \in Positions(c, "complete") : i < j

\* An invocation made for a transport error.
IsTransportError(e) == e.by \in {"readStream.error", "onerror"}

C9_StopIdempotent ==
    /\ [](\A c \in CallIds :
            /\ closeCalls[c] <= 1
            /\ closeCalls[c] = 1 => (conn[c] = "closed" /\ eventSource # c))
    /\ [][StopChatStream =>
            /\ eventSource' = 0
            /\ log' = log
            /\ eventSource = 0 => (conn' = conn /\ closeCalls' = closeCalls)
            /\ eventSource # 0 =>
                (conn'[eventSource] = "closed" /\ closeCalls'[eventSource] = 1)]_vars

\* Witness of C9: stopChatStream was called twice on an opened stream, and
\* close() was called once.
C9_Witness ==
    /\ nstops = 2
    /\ setup[1] = "ok"
    /\ closeCalls[1] = 1
    /\ eventSource = 0

HasContent(text) ==
    LET d == JSONParse(text)
    IN  /\ d.ok
        /\ d.value.type = "object"
        /\ CHOICES \in DOMAIN d.value.fields
        /\ d.value.fields[CHOICES].type = "array"
        /\ Len(d.value.fields[CHOICES].fields) >= 1
        /\ d.value.fields[CHOICES].fields[1].type = "object"
        /\ MESSAGE \in DOMAIN d.value.fields[CHOICES].fields[1].fields
        /\ d.value.fields[CHOICES].fields[1].fields[MESSAGE].type = "object"
        /\ CONTENT \in DOMAIN d.value.fields[CHOICES].fields[1].fields[MESSAGE].fields

\* The content of a body that has one.
ContentOf(text) ==
    JSONParse(text).value.fields[CHOICES].fields[1].fields[MESSAGE].fields[CONTENT]

\* The status codes of success: 2xx.
IsSuccessStatus(status) == status \in 200..299

\* C11: the non-streaming call never lets an exception escape, and when the
\* transport fails, the status is not a success status, the body is not JSON
\* or the body lacks choices[0].message.content, it resolves to
\* { success: false, error } with the cause as error.
C11_NeverThrows ==
    chat.called =>
        /\ ~chat.result.escaped
        /\ (\/ chat.fetch = "rejects"
            \/ ~IsSuccessStatus(chat.status)
            \/ ~JSONParse(chat.text).ok
            \/ ~HasContent(chat.text)) =>
                /\ ~chat.result.success
                /\ chat.result.error # ""

\* C12: chatWithAgentFuture of src/index.js resolves to exactly
\* { success: true, content: c } for a success status with a body whose
\* choices[0].message.content is c, and to { success: false, error } for a
\* failing status.
C12_StatusDecides ==
    (chat.called /\ impl = "index" /\ chat.fetch = "responds") =>
        /\ (IsSuccessStatus(chat.status) /\ HasContent(chat.text)) =>
                chat.result = ChatSuccess(ContentOf(chat.text))
        /\ ~IsSuccessStatus(chat.status) =>
                (~chat.result.success /\ chat.result.error # "")

\* C13: for a data frame whose payload parses as a JSON object, what the
\* success callback receives has the two fields response and systemPrompt
\* with the values of the payload (undefined for one the payload omits) and
\* no other field.
C13_OnlyTwoFields ==
    \A c \in CallIds : \A n \in Handled(c) :
        (/\ IsWellFormedData(LineText(c, n))
         /\ JSONParse(Payload(LineText(c, n))).value.type = "object") =>
            /\ Entries(c, n) # <<>>
            /\ Entries(c, n)[1].cb = "success"
            /\ Entries(c, n)[1].value.type = "object"
            /\ DOMAIN Entries(c, n)[1].value.fields \subseteq {RESPONSE, SYSTEMPROMPT}
            /\ \A k \in {RESPONSE, SYSTEMPROMPT} :
                   Property(Entries(c, n)[1].value, k)
                       = Property(JSONParse(Payload(LineText(c, n))).value, k)

\* What the handler of call c invokes for line number n taken alone.
FrameCalls(c, n) ==
    IF impl = "index"
    THEN IF LineText(c, n) = <<>>
         THEN <<>>
         ELSE ProcessLine(LineText(c, n), n, throwing[c])
    ELSE OnMessage(LineText(c, n), n, throwing[c]).calls

\* The invocations for the lines 1 to n of call c, in the order of the lines.
RECURSIVE InOrder(_, _)
InOrder(c, n) == IF n = 0 THEN <<>> ELSE InOrder(c, n - 1) \o FrameCalls(c, n)

\* C14: the callbacks made for frames are made in the order of the frames in
\* the stream: the invocations for lines in the log of a call are those of
\* its handled lines taken one by one in stream order, whether the lines came
\* in one chunk or in several.
C14_StreamOrder ==
    \A c \in CallIds :
        /\ SelectSeq(log[c], LAMBDA e : e.line > 0)
               = InOrder(c, Cardinality(Handled(c)))
        /\ \A i, j \in DOMAIN log[c] :
               (i < j /\ log[c][i].line > 0 /\ log[c][j].line > 0) =>
                   log[c][i].line <= log[c][j].line

\* Witness of C14: readStream has made a success invocation for the first
\* line and then an error invocation for the second.
C14_Witness ==
    /\ impl = "index"
    /\ conn[1] = "open"
    /\ Len(log[1]) = 2
    /\ log[1][1].cb = "success" /\ log[1][1].line = 1
    /\ log[1][2].cb = "error" /\ log[1][2].line = 2

\* An invocation that ends a stream of part_000: the completion for an end
\* marker or the report of a transport error.
IsTerminal(e) == IsMarkerCompletion(e) \/ IsTransportError(e)

\* C15: two calls on one instance, notifications interleaved: each call is
\* where it would be alone (readStream: the buffer, decoder state and
\* invocations of one chunk holding what that call received; part_000: the
\* invocations of its own messages in order, closed once its own end marker
\* or error was handled and not closed by anything but that or the caller's
\* stop), and while one connection is closed the other, if open, still has
\* the handle that closes it.
C15_Isolated ==
    /\ \A c \in CallIds :
        (impl = "index" /\ conn[c] # "none") =>
            \E one \in {OneChunk(received[c], throwing[c])} :
                /\ buffer[c] = one.open.buffer
                /\ decoder[c] = one.open.pending
                /\ nlines[c] = one.open.nlines
                /\ conn[c] = "open" => log[c] = one.open.calls
                /\ conn[c] = "ended" => log[c] = one.ended
                /\ conn[c] = "errored" =>
                       log[c] = one.open.calls \o ReadStreamError(TransportError)
    /\ \A c \in CallIds :
        (impl = "part_000" /\ conn[c] # "none") =>
            /\ SelectSeq(log[c], LAMBDA e : e.line > 0) = InOrder(c, nlines[c])
            /\ (\E i \in DOMAIN log[c] : IsTerminal(log[c][i])) => conn[c] = "closed"
            /\ (conn[c] = "closed" /\ nstops = 0) =>
                   \E i \in DOMAIN log[c] : IsTerminal(log[c][i])
    /\ \A c, d \in CallIds :
        (impl = "part_000" /\ c # d /\ conn[c] = "closed" /\ conn[d] = "open") =>
            eventSource = d

\* An invocation that shows the stream of a call is over: the completion for
\* an end marker, the completion at end-of-input, or the report of a
\* transport error.
IsStreamOver(e) == e.cb = "complete" \/ IsTransportError(e)

\* C16: once the handler of the notification that carried the end marker,
\* end-of-input or a transport error has run, the connection of that call is
\* no longer open, and close() was called on it at most once. (The handlers
\* run to completion and nothing else closes a connection, so a connection
\* that is open then stays open for as long as the server keeps it.)
C16_TornDown ==
    \A c \in CallIds :
        (\E i \in DOMAIN log[c] : IsStreamOver(log[c][i])) =>
            /\ conn[c] # "open"
            /\ closeCalls[c] <= 1

\* C17: the error test comes before the end-marker test: a frame whose
\* payload contains both statusCode and undefined gets exactly one
\* invocation, of the error callback; the completion callback is not invoked
\* for it, and handling it leaves the connection open.
C17_ErrorBeforeEnd ==
    \A c \in CallIds : \A n \in Handled(c) :
        (/\ IsFrame(LineText(c, n))
         /\ Includes(Payload(LineText(c, n)), STATUSCODE)
         /\ Includes(Payload(LineText(c, n)), UNDEFINED)) =>
            /\ Len(Entries(c, n)) = 1
            /\ Entries(c, n)[1].cb = "error"
            /\ (n = nlines[c] /\ Last(log[c]).line = n /\ nstops = 0) =>
                   conn[c] = "open"

\* What follows the last newline of text: all of it when it has none.
AfterLastNewline(text) ==
    LET at == {i \in 1..Len(text) : text[i] = NL}
    IN  IF at = {}
        THEN text
        ELSE SubSeq(text, (CHOOSE i \in at : \A j \in at : j <= i) + 1, Len(text))

\* C18: after every chunk the buffer of readStream holds no newline and is
\* what follows the last newline in the text decoded from all the bytes
\* received so far (empty when that text ends in a newline or is empty).
C18_BufferIsTail ==
    \A c \in CallIds :
        (impl = "index" /\ conn[c] # "none") =>
            /\ \A i \in 1..Len(buffer[c]) : buffer[c][i] # NL
            /\ buffer[c] = AfterLastNewline(Decode(<<>>, received[c]).chars)

\* Witness of C18: after a chunk that ended inside the second line, the
\* buffer holds the part of the second line received so far.
C18_Witness ==
    /\ impl = "index"
    /\ conn[1] = "open"
    /\ nlines[1] = 1
    /\ Len(buffer[1]) >= 2
    /\ Len(received[1]) > Len(buffer[1]) + 1

\* C19: when the caller's onSuccess throws, no exception leaves a handler of
\* readStream, and every well-formed data frame handled (the first one and
\* those after it, in the same chunk or later) gets the success invocation
\* followed by one invocation of the error callback, for that line, with what
\* was thrown.
C19_CallbackErrorCaught ==
    \A c \in CallIds :
        (impl = "index" /\ throwing[c]) =>
            /\ \A i \in DOMAIN log[c] : log[c][i].cb # "uncaught"
            /\ \A n \in Handled(c) :
                IsWellFormedData(LineText(c, n)) =>
                    /\ Len(Entries(c, n)) = 2
                    /\ Entries(c, n)[1].cb = "success"
                    /\ Entries(c, n)[2].cb = "error"
                    /\ Entries(c, n)[2].text
                           = <<"Error processing data: ", CallbackError>>

\* Witness of C19: onSuccess threw on the first of two data frames, and the
\* second has been dispatched too.
C19_Witness ==
    /\ impl = "index"
    /\ throwing[1]
    /\ frames[1] = <<L_DATA, L_DATA>>
    /\ conn[1] = "open"
    /\ Len(log[1]) = 4
    /\ log[1][3].cb = "success" /\ log[1][3].line = 2

====
